---- MODULE Spec2Model ----
(***************************************************************************)
(* Point-of-sale transaction engine of kasali_oloshe (sales/serializers.py,*)
(* sales/views.py, sales/models.py, sales/signals.py).                     *)
(*                                                                         *)
(* The database is a relational store with row locks and READ COMMITTED    *)
(* visibility: a transaction reads committed rows plus its own writes, a   *)
(* row it has written or selected FOR UPDATE stays locked until it commits *)
(* or rolls back, and a rollback discards every write of the transaction.  *)
(* Money is counted in hundredths (Decimal with 2 places), a VAT           *)
(* percentage in hundredths of a percent.                                  *)
(***************************************************************************)
EXTENDS Integers, Sequences, FiniteSets, TLC

\* ------------------------------------------------------------------ bounds
MaxReqs == 2        \* concurrent create_sale requests
MaxStock == 2       \* largest initial on-hand quantity of a product
MaxOrder == 2       \* largest quantity of a single-item cart
MaxTogglers == 1    \* concurrent toggle_stop_sale requests
MaxLog == 2         \* StopSaleLog rows written in one run
MaxTotal == 2       \* largest total of a credit sale
MaxClearers == 2    \* concurrent CreditViewSet.clear requests
MaxMarkers == 1     \* concurrent CreditViewSet.mark_partial requests
MaxUpdaters == 1    \* concurrent update_sale requests
MaxInvoice == 2     \* distinct values of the generated invoice identifier
MaxPrinters == 2    \* concurrent increment_print_count requests
MaxPrints == 2      \* largest receipt_print_count reached in one run
MaxReceivers == 2   \* concurrent change_status requests on the purchase order

Products == {1, 2}
Reqs == 1..MaxReqs                 \* create_sale requests (a sale's id is its request's)
NoReq == 0
Togglers == 1..MaxTogglers
RaceTogglers == 1..(MaxTogglers + 1)   \* with one more request, to race with
Clearers == 1..MaxClearers
Markers == 1..MaxMarkers
Updaters == (MaxReqs + 1)..(MaxReqs + MaxUpdaters)   \* update_sale requests
Txs == Reqs \cup Updaters
Roles == {"ADMIN", "MANAGER", "CASHIER"}
Printers == 1..MaxPrinters
Receivers == 1..MaxReceivers
InvoiceIds == 1..MaxInvoice        \* values of uuid.uuid4().hex[:8]

VARIABLES
    quantity,         \* Product.quantity, committed          [Products -> Nat]
    rowLock,          \* holder of each product's row lock    [Products -> Reqs \cup {NoReq}]
    pc,               \* position of each create_sale request
    req,              \* request data (attrs) of each create_sale request
    idx,              \* next line item of the create loop
    tx,               \* uncommitted writes of each request's transaction
    sales,            \* committed Sale rows, keyed by request
    saleItems,        \* committed SaleItem rows of each sale
    credits,          \* committed Credit rows, keyed by sale
    initial_quantity, \* history: the quantities before any request
    is_sale_stopped,  \* the cached gate flag (cache key 'is_sale_stopped')
    stopLog,          \* StopSaleLog rows, oldest first
    tpc,              \* position of each toggle_stop_sale request
    treq,             \* its role, action and the flag it read
    payments,         \* committed CreditPayment rows, oldest first
    cpc,              \* position of each CreditViewSet.clear request
    creq,             \* its credit id, amount and the Credit object it loaded
    mpc,              \* position of each CreditViewSet.mark_partial request
    mreq,             \* the credit id it works on
    upd,              \* what each update_sale request loaded: the sale id, the
                      \* Sale instance, its old items, the quantity last read
    uuid4,            \* the value uuid.uuid4() gives each create_sale request
    emitted,          \* the e-mails sent so far (receipts, low-stock alerts)
    ppc,              \* position of each increment_print_count request
    preq,             \* the sale id and the Sale object it loaded
    po_status,        \* PurchaseOrder.status of the one purchase order, committed
    po_added,         \* history: how often its items were added to the stock
    rpc,              \* position of each change_status request
    rreq              \* the status it loaded, the one it asks for, the quantity read

stockVars == <<quantity, rowLock, initial_quantity>>
txVars == <<pc, req, idx, tx, upd>>
rowVars == <<sales, saleItems, credits, payments>>
gateVars == <<is_sale_stopped, stopLog, tpc, treq>>
creditVars == <<cpc, creq, mpc, mreq>>

printVars == <<ppc, preq>>
poVars == <<po_status, po_added, rpc, rreq>>

vars == <<stockVars, txVars, rowVars, gateVars, creditVars, uuid4, emitted, printVars, poVars>>

\* ------------------------------------------------------------ pure helpers
Min(a, b) == IF a <= b THEN a ELSE b

RECURSIVE SumSubtotals(_)
SumSubtotals(items) ==
    IF items = <<>> THEN 0
    ELSE Head(items).quantity * Head(items).unit_price + SumSubtotals(Tail(items))

\* round(x, 2) of a Decimal: the quotient n/d rounded to an integer number of
\* hundredths, ties to the even neighbour (Decimal.__round__).
Round2(n, d) ==
    LET q == n \div d
        r == n % d
    IN  IF 2 * r < d THEN q
        ELSE IF 2 * r > d THEN q + 1
        ELSE IF q % 2 = 0 THEN q ELSE q + 1

\* The units of product p on the line items.
RECURSIVE QtyOf(_, _)
QtyOf(items, p) ==
    IF items = <<>> THEN 0
    ELSE (IF Head(items).product = p THEN Head(items).quantity ELSE 0)
         + QtyOf(Tail(items), p)

Privileged_Anyone(role) == TRUE

Privileged(role) == role \in {"ADMIN", "MANAGER"}

\* Index of the first line item whose quantity exceeds the stock read without a
\* lock, 0 when there is none.
RECURSIVE FirstShort(_, _, _)
FirstShort(items, qty, i) ==
    IF i > Len(items) THEN 0
    ELSE IF qty[items[i].product] < items[i].quantity THEN i
    ELSE FirstShort(items, qty, i + 1)

\* SaleSerializer.validate: the outcome of the pre-check.
validate_NoDiscountCheck(attrs, qty) ==
    IF attrs.items = <<>> THEN "no_items"
    ELSE IF FirstShort(attrs.items, qty, 1) # 0 THEN "insufficient_stock"
    ELSE "ok"

validate(attrs, qty) ==
    IF attrs.items = <<>> THEN "no_items"
    ELSE IF FirstShort(attrs.items, qty, 1) # 0 THEN "insufficient_stock"
    ELSE IF attrs.discount_amount # 0
            /\ attrs.discount_amount > SumSubtotals(attrs.items) THEN "discount_exceeds"
    ELSE "ok"

\* SaleItemSerializer.validate_product: the reference resolves to a Product.
validate_product(value) == value \in Products

\* serializer.is_valid: the field validation of every line item (the product
\* reference, and the quantity against the minimum 0 of SaleItem.quantity),
\* then SaleSerializer.validate.
is_valid(attrs, qty) ==
    IF \E i \in DOMAIN attrs.items : ~validate_product(attrs.items[i].product)
    THEN "invalid_product"
    ELSE IF \E i \in DOMAIN attrs.items : attrs.items[i].quantity < 0
    THEN "invalid_quantity"
    ELSE validate(attrs, qty)

\* The totals SaleSerializer.create computes and stores on the Sale row.
SaleRow(attrs) ==
    LET subtotal == SumSubtotals(attrs.items)
        discount == Min(attrs.discount_amount, subtotal)
        vat_base == subtotal - discount
        vat_amount == IF attrs.vat_percent # 0
                      THEN Round2(vat_base * attrs.vat_percent, 10000) ELSE 0
        total == vat_base + vat_amount
        paid == attrs.amount_paid
    IN  [subtotal |-> subtotal, discount_amount |-> discount,
         vat_amount |-> vat_amount, total_amount |-> total,
         payment_method |-> attrs.payment_method, amount_paid |-> paid,
         change_due |-> IF paid >= total THEN paid - total ELSE 0,
         receipt_print_count |-> 0]

\* create_credit_for_credit_sale: the Credit row the post_save signal inserts
\* (status is left at the model default).
CreditRow(sale) ==
    [total_amount |-> sale.total_amount, amount_paid |-> sale.amount_paid,
     outstanding_amount |-> sale.total_amount - sale.amount_paid,
     status |-> "pending"]

create_credit_for_credit_sale(sale) ==
    IF sale.payment_method = "credit" THEN <<CreditRow(sale)>> ELSE <<>>

\* The unique constraint on Sale.invoice_id: a committed row has the value.
InvoiceTaken_Never(inv, rows) == FALSE

InvoiceTaken(inv, rows) == \E s \in DOMAIN rows : rows[s].invoice_id = inv

\* An INSERT of a value that another transaction has inserted and not yet
\* committed waits for that transaction.
InvoicePending(t, inv) ==
    \E t2 \in Txs \ {t} : tx[t2].sale # <<>> /\ tx[t2].sale[1].invoice_id = inv

\* Sale.objects.create of SaleSerializer.create: the totals with the generated
\* invoice identifier.
Sale_objects_create(t, attrs) == [invoice_id |-> uuid4[t]] @@ SaleRow(attrs)

EmptyTx == [sale |-> <<>>, credit |-> <<>>, items |-> <<>>, qty |-> <<>>]

\* The quantity a transaction reads: its own write if it has one, else the
\* committed value.
Visible_Committed(t, p) == quantity[p]

Visible(t, p) == IF p \in DOMAIN tx[t].qty THEN tx[t].qty[p] ELSE quantity[p]

LocksWithout(t) == [p \in Products |-> IF rowLock[p] = t THEN NoReq ELSE rowLock[p]]

\* ------------------------------------------------------------------ inputs
Item(p, q) == [product |-> p, quantity |-> q, unit_price |-> 1]

SingleCarts == {<<Item(p, q)>> : p \in Products, q \in 1..MaxOrder}
NoToggle == [role |-> "CASHIER", action |-> "stop", current_status |-> FALSE]

PairCarts == {<<Item(p1, 1), Item(p2, 1)>> : p1 \in Products, p2 \in Products}

StockAttrs ==
    {[items |-> c, discount_amount |-> 0, vat_percent |-> 0,
      payment_method |-> m, amount_paid |-> 0, role |-> "CASHIER",
      is_stopped |-> FALSE]
        : c \in SingleCarts \cup PairCarts, m \in {"cash", "credit"}}

NoAttrs == [items |-> <<>>, discount_amount |-> 0, vat_percent |-> 0,
            payment_method |-> "cash", amount_paid |-> 0, role |-> "CASHIER",
            is_stopped |-> FALSE]

\* send_sales_receipt: the receipt e-mail of a newly inserted Sale (post_save).
send_sales_receipt(t) == {[kind |-> "receipt", by |-> t, product |-> 0]}

\* check_low_stock: the alert e-mail a saved Product sends when its quantity
\* is at or below its threshold (post_save).
low_stock_threshold == 5

check_low_stock(t, p, new_quantity) ==
    IF new_quantity <= low_stock_threshold
    THEN {[kind |-> "low_stock", by |-> t, product |-> p]}
    ELSE {}

\* ----------------------------------------------------------------- actions
\* SaleViewSet.create / BulkSalesSyncView.post: the request is turned away when
\* the flag read from the cache says stopped and the role is not privileged.
GateClosed_Ignored(is_stopped, role) == FALSE

GateClosed(is_stopped, role) == is_stopped /\ ~Privileged(role)

\* SaleViewSet.create up to the first lock: the gate check, the serializer's
\* validation against an unlocked read, then the start of the atomic block of
\* SaleSerializer.create with the Sale row (and, by signal, its Credit). The
\* INSERT of the Sale fails on a committed row with the same invoice_id
\* (IntegrityError; the atomic block rolls back).
SaleViewSet_create(t, attrs) ==
    /\ pc[t] = "idle"
    /\ req' = [req EXCEPT ![t] = [attrs EXCEPT !.is_stopped = is_sale_stopped]]
    /\ IF GateClosed(is_sale_stopped, attrs.role)
       THEN /\ pc' = [pc EXCEPT ![t] = "gate_closed"]
            /\ UNCHANGED <<tx, idx, emitted>>
       ELSE IF is_valid(attrs, quantity) # "ok"
       THEN /\ pc' = [pc EXCEPT ![t] = is_valid(attrs, quantity)]
            /\ UNCHANGED <<tx, idx, emitted>>
       ELSE /\ ~InvoicePending(t, uuid4[t])
            /\ IF InvoiceTaken(uuid4[t], sales)
               THEN /\ pc' = [pc EXCEPT ![t] = "integrity_error"]
                    /\ UNCHANGED <<tx, idx, emitted>>
               ELSE /\ pc' = [pc EXCEPT ![t] = "in_tx"]
                    /\ idx' = [idx EXCEPT ![t] = 1]
                    /\ tx' = [tx EXCEPT ![t] =
                          [sale |-> <<Sale_objects_create(t, attrs)>>,
                           credit |-> create_credit_for_credit_sale(SaleRow(attrs)),
                           items |-> <<>>, qty |-> <<>>]]
                    /\ emitted' = emitted \cup send_sales_receipt(t)
    /\ UNCHANGED <<poVars, printVars, uuid4, stockVars, rowVars, gateVars, creditVars, upd>>

\* The stock comparison of the create loop, on the quantity read under the lock.
StockOk_NoRecheck(available, wanted) == TRUE

StockOk_Strict(available, wanted) == available > wanted

StockOk(available, wanted) == available >= wanted

\* The committed quantities once a transaction that raised has rolled back
\* (@transaction.atomic): none of its writes survives.
RolledBack_Partial(t) == [p \in Products |-> Visible(t, p)]

RolledBack_RestoreKept(t) ==
    [p \in Products |-> Visible(t, p) + QtyOf(tx[t].items, p)]

RolledBack(t) == quantity

\* One turn of the item loop of SaleSerializer.create and of
\* SaleSerializer.update: lock the product row, read it again, and either raise
\* (the atomic block rolls back) or insert the SaleItem and write the deducted
\* quantity.
LockCheckDeduct(t) ==
    /\ pc[t] = "in_tx"
    /\ idx[t] <= Len(req[t].items)
    /\ LET it == req[t].items[idx[t]]
           p == it.product
           available == Visible(t, p)
       IN  /\ rowLock[p] \in {NoReq, t}
           /\ IF StockOk(available, it.quantity)
              THEN /\ rowLock' = [rowLock EXCEPT ![p] = t]
                   /\ tx' = [tx EXCEPT ![t].items = Append(@, it),
                                       ![t].qty = (p :> (available - it.quantity)) @@ @]
                   /\ idx' = [idx EXCEPT ![t] = @ + 1]
                   /\ pc' = pc
                   /\ quantity' = quantity
                   /\ emitted' = emitted \cup check_low_stock(t, p, available - it.quantity)
              ELSE /\ rowLock' = LocksWithout(t)
                   /\ quantity' = RolledBack(t)
                   /\ tx' = [tx EXCEPT ![t] = EmptyTx]
                   /\ idx' = idx
                   /\ emitted' = emitted
                   /\ pc' = [pc EXCEPT ![t] = "rejected_stock"]
    /\ UNCHANGED <<poVars, printVars, uuid4, req, upd, initial_quantity, rowVars, gateVars, creditVars>>

create_item(t) ==
    /\ t \in Reqs
    /\ LockCheckDeduct(t)

\* The atomic block of SaleSerializer.create ends: its writes become visible
\* and its locks are released.
create_commit(t) ==
    /\ t \in Reqs
    /\ pc[t] = "in_tx"
    /\ idx[t] > Len(req[t].items)
    /\ quantity' = [p \in Products |-> Visible(t, p)]
    /\ sales' = (t :> tx[t].sale[1]) @@ sales
    /\ saleItems' = (t :> tx[t].items) @@ saleItems
    /\ credits' = IF tx[t].credit # <<>> THEN (t :> tx[t].credit[1]) @@ credits
                  ELSE credits
    /\ rowLock' = LocksWithout(t)
    /\ tx' = [tx EXCEPT ![t] = EmptyTx]
    /\ pc' = [pc EXCEPT ![t] = "committed"]
    /\ UNCHANGED <<poVars, printVars, uuid4, emitted, req, idx, upd, initial_quantity, payments, gateVars, creditVars>>

\* ------------------------------------------------------------- update_sale
NoUpdate == [sale_id |-> 0, instance |-> [invoice_id |-> 0] @@ SaleRow(NoAttrs), old_items |-> <<>>,
             quantity |-> 0]

\* SaleViewSet.update up to the first product read of SaleSerializer.update:
\* get_object, the serializer's validation against an unlocked read, then the
\* start of the atomic block with the sale's old items.
SaleViewSet_update(u, s, attrs) ==
    /\ pc[u] = "idle"
    /\ s \in DOMAIN sales
    /\ req' = [req EXCEPT ![u] = attrs]
    /\ IF is_valid(attrs, quantity) # "ok"
       THEN /\ pc' = [pc EXCEPT ![u] = is_valid(attrs, quantity)]
            /\ upd' = [upd EXCEPT ![u] = [sale_id |-> s, instance |-> sales[s],
                                          old_items |-> <<>>, quantity |-> 0]]
            /\ idx' = idx
       ELSE /\ pc' = [pc EXCEPT ![u] = IF saleItems[s] = <<>> THEN "in_tx" ELSE "restore"]
            /\ idx' = [idx EXCEPT ![u] = 1]
            /\ upd' = [upd EXCEPT ![u] = [sale_id |-> s, instance |-> sales[s],
                                          old_items |-> saleItems[s], quantity |-> 0]]
    /\ UNCHANGED <<poVars, printVars, uuid4, emitted, stockVars, tx, rowVars, gateVars, creditVars>>

\* product = old_item.product: the old item's product is loaded without a lock.
update_restore_read(u) ==
    /\ pc[u] = "restore"
    /\ upd' = [upd EXCEPT ![u].quantity = Visible(u, upd[u].old_items[idx[u]].product)]
    /\ pc' = [pc EXCEPT ![u] = "restore_save"]
    /\ UNCHANGED <<poVars, printVars, uuid4, emitted, stockVars, req, idx, tx, rowVars, gateVars, creditVars>>

\* product.quantity += old_item.quantity; product.save(update_fields=['quantity']):
\* the UPDATE waits for the row lock and writes the loaded quantity plus the
\* old item's. After the last old item the old items are deleted.
update_restore_save(u) ==
    /\ pc[u] = "restore_save"
    /\ LET old == upd[u].old_items[idx[u]]
           p == old.product
       IN  /\ rowLock[p] \in {NoReq, u}
           /\ rowLock' = [rowLock EXCEPT ![p] = u]
           /\ tx' = [tx EXCEPT ![u].qty = (p :> (upd[u].quantity + old.quantity)) @@ @]
           /\ emitted' = emitted \cup check_low_stock(u, p, upd[u].quantity + old.quantity)
    /\ IF idx[u] < Len(upd[u].old_items)
       THEN /\ idx' = [idx EXCEPT ![u] = @ + 1]
            /\ pc' = [pc EXCEPT ![u] = "restore"]
       ELSE /\ idx' = [idx EXCEPT ![u] = 1]
            /\ pc' = [pc EXCEPT ![u] = "in_tx"]
    /\ UNCHANGED <<poVars, printVars, uuid4, quantity, initial_quantity, req, upd, rowVars, gateVars, creditVars>>

update_item(u) ==
    /\ u \in Updaters
    /\ LockCheckDeduct(u)

\* A field of the validated data, or the given value when the request left
\* it out (a partial update).
Given(attrs, field, otherwise) ==
    IF field \in DOMAIN attrs THEN attrs[field] ELSE otherwise

\* The Sale row instance.save() writes: the loaded instance with the simple
\* fields the request gave (payment_method, amount_paid, receipt_print_count)
\* and the recomputed totals; change_due is recomputed only when the request
\* gave amount_paid.
UpdatedRow(instance, attrs) ==
    LET subtotal == SumSubtotals(attrs.items)
        discount == Min(attrs.discount_amount, subtotal)
        vat_base == subtotal - discount
        vat_amount == IF attrs.vat_percent # 0
                      THEN Round2(vat_base * attrs.vat_percent, 10000) ELSE 0
        total == vat_base + vat_amount
        paid == Given(attrs, "amount_paid", instance.amount_paid)
    IN  [invoice_id |-> instance.invoice_id,
         subtotal |-> subtotal, discount_amount |-> discount,
         vat_amount |-> vat_amount, total_amount |-> total,
         payment_method |-> Given(attrs, "payment_method", instance.payment_method),
         amount_paid |-> paid,
         change_due |-> IF "amount_paid" \in DOMAIN attrs
                        THEN (IF paid >= total THEN paid - total ELSE 0)
                        ELSE instance.change_due,
         receipt_print_count |->
            Given(attrs, "receipt_print_count", instance.receipt_print_count)]

\* instance.save() and the end of the atomic block of SaleSerializer.update.
update_commit(u) ==
    /\ u \in Updaters
    /\ pc[u] = "in_tx"
    /\ idx[u] > Len(req[u].items)
    /\ LET s == upd[u].sale_id
       IN  /\ sales' = [sales EXCEPT ![s] = UpdatedRow(upd[u].instance, req[u])]
           /\ saleItems' = [saleItems EXCEPT ![s] = tx[u].items]
    /\ quantity' = [p \in Products |-> Visible(u, p)]
    /\ rowLock' = LocksWithout(u)
    /\ tx' = [tx EXCEPT ![u] = EmptyTx]
    /\ pc' = [pc EXCEPT ![u] = "committed"]
    /\ UNCHANGED <<poVars, printVars, uuid4, emitted, req, idx, upd, initial_quantity, credits, payments, gateVars,
                   creditVars>>

\* ------------------------------------------------------ the print counter
NoPrint == [sale_id |-> 0, receipt_print_count |-> 0]

\* SaleViewSet.increment_print_count up to the write: get_object loads the Sale.
increment_print_count(k, s) ==
    /\ ppc[k] = "idle"
    /\ s \in DOMAIN sales
    /\ sales[s].receipt_print_count < MaxPrints
    /\ preq' = [preq EXCEPT ![k] = [sale_id |-> s,
                    receipt_print_count |-> sales[s].receipt_print_count]]
    /\ ppc' = [ppc EXCEPT ![k] = "loaded"]
    /\ UNCHANGED <<poVars, uuid4, emitted, stockVars, txVars, rowVars, gateVars, creditVars>>

\* Sale.increment_print_count: the loaded count plus one is written
\* (save(update_fields=['receipt_print_count'])); the client may print again.
Sale_increment_print_count(k) ==
    /\ ppc[k] = "loaded"
    /\ sales' = [sales EXCEPT ![preq[k].sale_id].receipt_print_count =
                    preq[k].receipt_print_count + 1]
    /\ ppc' = [ppc EXCEPT ![k] = "idle"]
    /\ UNCHANGED <<poVars, uuid4, emitted, stockVars, txVars, saleItems, credits, payments,
                   gateVars, creditVars, preq>>

\* ------------------------------------------------------- purchase orders
\* The one line item of the purchase order.
po_item == [product |-> 1, quantity |-> 1]

NoChange == [old_status |-> "draft", new_status |-> "draft", quantity |-> 0]

\* valid_transitions of change_status.
valid_transitions(old_status) ==
    CASE old_status = "draft" -> {"pending", "cancelled"}
      [] old_status = "pending" -> {"approved", "cancelled"}
      [] old_status = "approved" -> {"received", "cancelled"}
      [] OTHER -> {}

\* PurchaseOrderViewSet.change_status up to its atomic block: get_object loads
\* the purchase order and the transition is checked against the loaded status.
change_status(r, new_status) ==
    /\ rpc[r] = "idle"
    /\ rreq' = [rreq EXCEPT ![r] = [old_status |-> po_status,
                                    new_status |-> new_status, quantity |-> 0]]
    /\ rpc' = [rpc EXCEPT ![r] =
          IF new_status \notin valid_transitions(po_status) THEN "bad_transition"
          ELSE IF new_status = "received" THEN "receiving"
          ELSE "saving"]
    /\ UNCHANGED <<printVars, uuid4, emitted, stockVars, txVars, rowVars, gateVars,
                   creditVars, po_status, po_added>>

\* _update_inventory, product = item.product: the product is loaded without a
\* lock.
update_inventory_read(r) ==
    /\ rpc[r] = "receiving"
    /\ rreq' = [rreq EXCEPT ![r].quantity = quantity[po_item.product]]
    /\ rpc' = [rpc EXCEPT ![r] = "inventory_save"]
    /\ UNCHANGED <<printVars, uuid4, emitted, stockVars, txVars, rowVars, gateVars,
                   creditVars, po_status, po_added>>

\* product.quantity += item.quantity; product.save(); po.save() and the end of
\* the atomic block: the UPDATE waits for the row lock and writes the loaded
\* quantity plus the item's (a low-stock alert may follow), then the requested
\* status is written and all of it commits.
update_inventory_save(r) ==
    /\ rpc[r] = "inventory_save"
    /\ LET p == po_item.product
           new_quantity == rreq[r].quantity + po_item.quantity
       IN  /\ rowLock[p] = NoReq
           /\ quantity' = [quantity EXCEPT ![p] = new_quantity]
           /\ emitted' = emitted \cup check_low_stock(NoReq, p, new_quantity)
    /\ po_status' = rreq[r].new_status
    /\ po_added' = po_added + 1
    /\ rpc' = [rpc EXCEPT ![r] = "done"]
    /\ UNCHANGED <<printVars, uuid4, rowLock, initial_quantity, txVars, rowVars,
                   gateVars, creditVars, rreq>>

\* The atomic block of a change to a status other than received: po.save().
po_save(r) ==
    /\ rpc[r] = "saving"
    /\ po_status' = rreq[r].new_status
    /\ rpc' = [rpc EXCEPT ![r] = "done"]
    /\ UNCHANGED <<printVars, uuid4, emitted, stockVars, txVars, rowVars, gateVars,
                   creditVars, po_added, rreq>>

\* The response is sent; the client may call again.
change_status_return(r) ==
    /\ rpc[r] \in {"done", "bad_transition"}
    /\ rpc' = [rpc EXCEPT ![r] = "idle"]
    /\ rreq' = [rreq EXCEPT ![r] = NoChange]
    /\ UNCHANGED <<printVars, uuid4, emitted, stockVars, txVars, rowVars, gateVars,
                   creditVars, po_status, po_added>>

\* ---------------------------------------------------------- the Credit ledger
\* Credit.update_status: the status the amounts of a Credit object stand for.
StatusOf(amount_paid, outstanding_amount) ==
    IF outstanding_amount <= 0 THEN "cleared"
    ELSE IF amount_paid > 0 THEN "partially_paid"
    ELSE "pending"

update_status(credit) ==
    [credit EXCEPT !.status = StatusOf(credit.amount_paid, credit.outstanding_amount)]

NoClear == [credit_id |-> 0, amount |-> 0, credit |-> CreditRow(SaleRow(NoAttrs))]

\* The comparison of CreditViewSet.clear against the outstanding amount of the
\* Credit object it loaded.
ExceedsOutstanding_Total(amount, credit) == amount > credit.total_amount

ExceedsOutstanding(amount, credit) == amount > credit.outstanding_amount

\* CreditViewSet.clear up to its atomic block: get_object, the cleared check,
\* ClearCreditSerializer.validate_amount_paid and the outstanding check.
clear(c, s, amount) ==
    /\ cpc[c] = "idle"
    /\ s \in DOMAIN credits
    /\ LET credit == credits[s]
       IN  /\ creq' = [creq EXCEPT ![c] = [credit_id |-> s, amount |-> amount,
                                            credit |-> credit]]
           /\ cpc' = [cpc EXCEPT ![c] =
                 IF credit.status = "cleared" THEN "already_cleared"
                 ELSE IF amount <= 0 THEN "invalid_amount"
                 ELSE IF ExceedsOutstanding(amount, credit) THEN "exceeds_outstanding"
                 ELSE "paying"]
    /\ UNCHANGED <<poVars, printVars, uuid4, emitted, stockVars, txVars, rowVars, gateVars, mpc, mreq>>

\* The atomic block of clear, CreditPayment.objects.create -> CreditPayment.save:
\* the loaded Credit object's amounts are changed and written back
\* (update_fields amount_paid, outstanding_amount), update_status writes the
\* status they stand for, and the payment row is inserted.
CreditPayment_save(c) ==
    /\ cpc[c] = "paying"
    /\ LET s == creq[c].credit_id
           amount == creq[c].amount
           credit == [creq[c].credit EXCEPT
                        !.amount_paid = @ + amount,
                        !.outstanding_amount = @ - amount]
       IN  /\ credits' = [credits EXCEPT ![s] =
                 [@ EXCEPT !.amount_paid = credit.amount_paid,
                           !.outstanding_amount = credit.outstanding_amount,
                           !.status = update_status(credit).status]]
           /\ payments' = Append(payments, [credit |-> s, amount |-> amount])
    /\ cpc' = [cpc EXCEPT ![c] = "paid"]
    /\ UNCHANGED <<poVars, printVars, uuid4, emitted, stockVars, txVars, sales, saleItems, gateVars, creq, mpc, mreq>>

\* CreditViewSet.mark_partial up to its write: get_object and the status checks.
mark_partial(m, s) ==
    /\ mpc[m] = "idle"
    /\ s \in DOMAIN credits
    /\ mreq' = [mreq EXCEPT ![m] = s]
    /\ mpc' = [mpc EXCEPT ![m] =
          IF credits[s].status = "cleared" THEN "already_cleared"
          ELSE IF credits[s].status # "partially_paid" THEN "marking"
          ELSE "unchanged"]
    /\ UNCHANGED <<poVars, printVars, uuid4, emitted, stockVars, txVars, rowVars, gateVars, cpc, creq>>

\* credit.save(update_fields=['status']) of mark_partial.
mark_partial_save(m) ==
    /\ mpc[m] = "marking"
    /\ credits' = [credits EXCEPT ![mreq[m]].status = "partially_paid"]
    /\ mpc' = [mpc EXCEPT ![m] = "marked"]
    /\ UNCHANGED <<poVars, printVars, uuid4, emitted, stockVars, txVars, sales, saleItems, payments, gateVars,
                   cpc, creq, mreq>>

\* ------------------------------------------------------------ the Sale-Gate
\* The StopSaleLog rows after a resume: the newest row with is_stopped = True
\* (filter(is_stopped=True).order_by('-created_at').first()) is marked resumed.
RECURSIVE NewestStopped(_, _)
NewestStopped(log, i) ==
    IF i = 0 THEN 0
    ELSE IF log[i].is_stopped THEN i
    ELSE NewestStopped(log, i - 1)

ResumeLog(log, by) ==
    LET i == NewestStopped(log, Len(log))
    IN  IF i = 0 THEN log
        ELSE [log EXCEPT ![i] = [@ EXCEPT !.is_stopped = FALSE, !.resumed_by = by]]

\* toggle_stop_sale up to its first write: the permission check, the action
\* check and the read of the cached flag.
toggle_stop_sale(g, role, action) ==
    /\ tpc[g] = "idle"
    /\ LET current_status == is_sale_stopped
       IN  /\ treq' = [treq EXCEPT ![g] = [role |-> role, action |-> action,
                                            current_status |-> current_status]]
           /\ tpc' = [tpc EXCEPT ![g] =
                 IF ~Privileged(role) THEN "forbidden"
                 ELSE IF action \notin {"stop", "resume"} THEN "invalid_action"
                 ELSE IF action = "stop" /\ ~current_status THEN "stopping"
                 ELSE IF action = "resume" /\ current_status THEN "resuming"
                 ELSE "already"]
    /\ UNCHANGED <<poVars, printVars, uuid4, emitted, stockVars, txVars, rowVars, creditVars, is_sale_stopped, stopLog>>

\* The StopSaleLog write of toggle_stop_sale: a new row on stop, the newest
\* stopped row updated on resume.
toggle_write_log(g) ==
    /\ tpc[g] \in {"stopping", "resuming"}
    /\ IF tpc[g] = "stopping"
       THEN /\ Len(stopLog) < MaxLog
            /\ stopLog' = Append(stopLog, [is_stopped |-> TRUE, stopped_by |-> g,
                                           resumed_by |-> 0])
            /\ tpc' = [tpc EXCEPT ![g] = "stop_logged"]
       ELSE /\ stopLog' = ResumeLog(stopLog, g)
            /\ tpc' = [tpc EXCEPT ![g] = "resume_logged"]
    /\ UNCHANGED <<poVars, printVars, uuid4, emitted, stockVars, txVars, rowVars, creditVars, is_sale_stopped, treq>>

\* cache.set('is_sale_stopped', ...) of toggle_stop_sale.
toggle_set_cache(g) ==
    /\ tpc[g] \in {"stop_logged", "resume_logged"}
    /\ is_sale_stopped' = (tpc[g] = "stop_logged")
    /\ tpc' = [tpc EXCEPT ![g] = "done"]
    /\ UNCHANGED <<poVars, printVars, uuid4, emitted, stockVars, txVars, rowVars, creditVars, stopLog, treq>>

\* The response is sent; the client may call again.
toggle_return(g) ==
    /\ tpc[g] \in {"done", "forbidden", "invalid_action", "already"}
    /\ tpc' = [tpc EXCEPT ![g] = "idle"]
    /\ UNCHANGED <<poVars, printVars, uuid4, emitted, stockVars, txVars, rowVars, creditVars, is_sale_stopped, stopLog, treq>>

\* ----------------------------------------------------------- specification
InitRows ==
    /\ rowLock = [p \in Products |-> NoReq]
    /\ initial_quantity = quantity
    /\ pc = [t \in Txs |-> "idle"]
    /\ req = [t \in Txs |-> NoAttrs]
    /\ idx = [t \in Txs |-> 0]
    /\ tx = [t \in Txs |-> EmptyTx]
    /\ upd = [u \in Updaters |-> NoUpdate]
    /\ sales = <<>>
    /\ saleItems = <<>>
    /\ credits = <<>>
    /\ payments = <<>>
    /\ cpc = [c \in Clearers |-> "idle"]
    /\ creq = [c \in Clearers |-> NoClear]
    /\ mpc = [m \in Markers |-> "idle"]
    /\ mreq = [m \in Markers |-> 0]
    /\ emitted = {}
    /\ ppc = [k \in Printers |-> "idle"]
    /\ preq = [k \in Printers |-> NoPrint]
    /\ po_status = "draft"
    /\ po_added = 0
    /\ rpc = [r \in Receivers |-> "idle"]
    /\ rreq = [r \in Receivers |-> NoChange]

\* initialize_stop_sale_cache: the flag starts (and defaults to) False.
InitGate ==
    /\ is_sale_stopped = FALSE
    /\ stopLog = <<>>
    /\ tpc = [g \in RaceTogglers |-> "idle"]
    /\ treq = [g \in RaceTogglers |-> NoToggle]

\* Every request generates an identifier no other request generates.
InitDistinct == uuid4 = [t \in Reqs |-> t]

Init ==
    /\ quantity \in [Products -> 0..MaxStock]
    /\ InitDistinct
    /\ InitRows
    /\ InitGate

Next ==
    \E t \in Reqs :
        \/ \E attrs \in StockAttrs : SaleViewSet_create(t, attrs)
        \/ create_item(t)
        \/ create_commit(t)

Spec == Init /\ [][Next]_vars

\* Every request runs in a thread of its own that keeps running: a step of its
\* item loop or its commit that stays possible is eventually taken.
SpecFair ==
    /\ Init
    /\ [][Next]_vars
    /\ \A t \in Reqs : WF_vars(create_item(t) \/ create_commit(t))

\* Sales of one unit by callers of every role, while the gate is toggled.
GateAttrs ==
    {[items |-> <<Item(1, 1)>>, discount_amount |-> 0, vat_percent |-> 0,
      payment_method |-> "cash", amount_paid |-> 1, role |-> r,
      is_stopped |-> FALSE] : r \in Roles}

\* Every product fully stocked, nothing sold yet.
InitStocked ==
    /\ quantity = [p \in Products |-> MaxStock]
    /\ InitDistinct
    /\ InitRows
    /\ InitGate

NextGate ==
    \/ \E t \in Reqs :
        \/ \E attrs \in GateAttrs : SaleViewSet_create(t, attrs)
        \/ create_item(t)
        \/ create_commit(t)
    \/ \E g \in Togglers :
        \/ \E role \in Roles : \E action \in {"stop", "resume", "pause"} :
              toggle_stop_sale(g, role, action)
        \/ toggle_write_log(g)
        \/ toggle_set_cache(g)
        \/ toggle_return(g)

SpecGate == InitStocked /\ [][NextGate]_vars

\* One sale of one unit priced 1..MaxTotal with 0..MaxTotal paid at the till,
\* then payments and manual marking on its Credit.
CreditAttrs ==
    {[items |-> <<[product |-> 1, quantity |-> 1, unit_price |-> u]>>,
      discount_amount |-> 0, vat_percent |-> 0, payment_method |-> m,
      amount_paid |-> a, role |-> "CASHIER", is_stopped |-> FALSE]
        : u \in 1..MaxTotal, a \in 0..MaxTotal, m \in {"cash", "credit"}}

ClearAmounts == (-1)..(MaxTotal + 1)

NextCredit ==
    \/ \E attrs \in CreditAttrs : SaleViewSet_create(1, attrs)
    \/ create_item(1)
    \/ create_commit(1)
    \/ \E c \in Clearers :
        \/ \E s \in DOMAIN credits : \E amount \in ClearAmounts : clear(c, s, amount)
        \/ CreditPayment_save(c)
    \/ \E m \in Markers :
        \/ \E s \in DOMAIN credits : mark_partial(m, s)
        \/ mark_partial_save(m)

SpecCredit == InitStocked /\ [][NextCredit]_vars

\* One sale with prices, discounts, VAT and payments in hundredths: 2 x 500.00,
\* 3 x 1.00, 1 x 0.15, 2 x 0.30 and a negative unit price; discounts up to
\* 1500.00.
PricingCarts ==
    {<<[product |-> 1, quantity |-> 2, unit_price |-> 50000]>>,
     <<[product |-> 1, quantity |-> 1, unit_price |-> 100],
       [product |-> 2, quantity |-> 2, unit_price |-> 100]>>,
     <<[product |-> 2, quantity |-> 1, unit_price |-> 15]>>,
     <<[product |-> 2, quantity |-> 2, unit_price |-> 30]>>,
     <<[product |-> 1, quantity |-> 1, unit_price |-> -100]>>}

PricingAttrs ==
    {[items |-> c, discount_amount |-> d, vat_percent |-> v, payment_method |-> m,
      amount_paid |-> a, role |-> "CASHIER", is_stopped |-> FALSE]
        : c \in PricingCarts, d \in {0, 10000, 100000, 150000}, v \in {0, 750},
          a \in {0, 30000, 100000}, m \in {"cash", "credit"}}

NextPricing ==
    \/ \E attrs \in PricingAttrs : SaleViewSet_create(1, attrs)
    \/ create_item(1)
    \/ create_commit(1)

SpecPricing == InitStocked /\ [][NextPricing]_vars

\* Sales by two sellers and updates of the committed sales, all of one product
\* per cart.
UpdateSellers == {1, 2}

UpdateAttrs ==
    {[items |-> c, discount_amount |-> 0, vat_percent |-> 0,
      payment_method |-> "cash", amount_paid |-> 0, role |-> "CASHIER",
      is_stopped |-> FALSE]
        : c \in {<<Item(1, 1)>>, <<Item(2, 1)>>, <<Item(1, 2)>>}}

NextUpdate ==
    \/ \E t \in UpdateSellers :
        \/ \E attrs \in UpdateAttrs : SaleViewSet_create(t, attrs)
        \/ create_item(t)
        \/ create_commit(t)
    \/ \E u \in Updaters :
        \/ \E s \in DOMAIN sales : \E attrs \in UpdateAttrs : SaleViewSet_update(u, s, attrs)
        \/ update_restore_read(u)
        \/ update_restore_save(u)
        \/ update_item(u)
        \/ update_commit(u)

SpecUpdate == InitStocked /\ [][NextUpdate]_vars

\* Well-formed and malformed requests: an empty cart, quantities 0 and -1, a
\* product reference that resolves to nothing, a negative VAT percentage.
ValidationCarts ==
    {<<>>, <<Item(1, 1)>>, <<Item(1, 0)>>, <<Item(2, -1)>>,
     <<[product |-> 3, quantity |-> 1, unit_price |-> 1]>>,
     <<Item(1, 1), Item(2, 0)>>, <<Item(2, 1), Item(1, MaxStock + 1)>>}

ValidationAttrs ==
    {[items |-> c, discount_amount |-> 0, vat_percent |-> v, payment_method |-> m,
      amount_paid |-> 0, role |-> "CASHIER", is_stopped |-> FALSE]
        : c \in ValidationCarts, v \in {0, -750}, m \in {"cash", "credit"}}

NextValidation ==
    \E t \in Reqs :
        \/ \E attrs \in ValidationAttrs : SaleViewSet_create(t, attrs)
        \/ create_item(t)
        \/ create_commit(t)

SpecValidation == InitStocked /\ [][NextValidation]_vars

\* Sales of one product by requests whose generated identifiers may collide.
InitInvoice ==
    /\ quantity = [p \in Products |-> MaxStock]
    /\ uuid4 \in [Reqs -> InvoiceIds]
    /\ InitRows
    /\ InitGate

InvoiceAttrs ==
    {[items |-> c, discount_amount |-> 0, vat_percent |-> 0, payment_method |-> m,
      amount_paid |-> 0, role |-> "CASHIER", is_stopped |-> FALSE]
        : c \in SingleCarts, m \in {"cash", "credit"}}

NextInvoice ==
    \E t \in Reqs :
        \/ \E attrs \in InvoiceAttrs : SaleViewSet_create(t, attrs)
        \/ create_item(t)
        \/ create_commit(t)

SpecInvoice == InitInvoice /\ [][NextInvoice]_vars

\* One sale of one unit priced 1.00, paid 0.00 or 2.00 or on credit, then an update of it
\* (a full one, or a partial one that leaves out amount_paid or sets
\* receipt_print_count) while its receipt is printed.
EditSaleAttrs ==
    {[items |-> <<Item(1, 1)>>, discount_amount |-> 0, vat_percent |-> 0,
      payment_method |-> m, amount_paid |-> a, role |-> "CASHIER",
      is_stopped |-> FALSE] : m \in {"cash", "credit"}, a \in {0, 2}}

EditCarts ==
    {<<>>, <<Item(1, 1)>>, <<Item(1, 2)>>,
     <<[product |-> 1, quantity |-> 1, unit_price |-> 2]>>}

EditAttrs ==
    {[items |-> c, discount_amount |-> 0, vat_percent |-> 0,
      payment_method |-> m, amount_paid |-> a] :
            c \in EditCarts, m \in {"cash", "credit"}, a \in {0, 2}}
    \cup {[items |-> c, discount_amount |-> 0, vat_percent |-> 0] : c \in EditCarts}
    \cup {[items |-> c, discount_amount |-> 0, vat_percent |-> 0,
           receipt_print_count |-> n] : c \in EditCarts, n \in {0, 1}}

NextEdit ==
    \/ \E attrs \in EditSaleAttrs : SaleViewSet_create(1, attrs)
    \/ create_item(1)
    \/ create_commit(1)
    \/ \E u \in Updaters :
        \/ \E s \in DOMAIN sales : \E attrs \in EditAttrs : SaleViewSet_update(u, s, attrs)
        \/ update_restore_read(u)
        \/ update_restore_save(u)
        \/ update_item(u)
        \/ update_commit(u)
    \/ \E k \in Printers :
        \/ \E s \in DOMAIN sales : increment_print_count(k, s)
        \/ Sale_increment_print_count(k)

SpecEdit == InitStocked /\ [][NextEdit]_vars

\* A purchase order of one unit of product 1 taken through its statuses by
\* concurrent change_status requests, while the product is sold and a sale of
\* it is updated.
ReceiveAttrs ==
    {[items |-> <<Item(1, 1)>>, discount_amount |-> 0, vat_percent |-> 0,
      payment_method |-> "cash", amount_paid |-> 0, role |-> "CASHIER",
      is_stopped |-> FALSE]}

NextReceive ==
    \/ \E attrs \in ReceiveAttrs : SaleViewSet_create(1, attrs)
    \/ create_item(1)
    \/ create_commit(1)
    \/ \E u \in Updaters :
        \/ \E s \in DOMAIN sales : \E attrs \in ReceiveAttrs : SaleViewSet_update(u, s, attrs)
        \/ update_restore_read(u)
        \/ update_restore_save(u)
        \/ update_item(u)
        \/ update_commit(u)
    \/ \E r \in Receivers :
        \/ \E new_status \in {"pending", "approved", "received", "cancelled"} :
              change_status(r, new_status)
        \/ update_inventory_read(r)
        \/ update_inventory_save(r)
        \/ po_save(r)
        \/ change_status_return(r)

SpecReceive == InitStocked /\ [][NextReceive]_vars

\* Concurrent toggle calls by managers and a cashier, and nothing else.
NextToggle ==
    \E g \in RaceTogglers :
        \/ \E role \in {"MANAGER", "CASHIER"} : \E action \in {"stop", "resume", "pause"} :
              toggle_stop_sale(g, role, action)
        \/ toggle_write_log(g)
        \/ toggle_set_cache(g)
        \/ toggle_return(g)

SpecToggle == InitStocked /\ [][NextToggle]_vars

\* ------------------------------------------------------------------ claims
Submitted == {t \in Reqs : pc[t] # "idle"}
Committed == {t \in Reqs : pc[t] = "committed"}
Finished(t) == pc[t] \notin {"idle", "in_tx"}

\* C1: under every interleaving of concurrent create_sale requests no product's
\* on-hand quantity is negative, neither the committed value nor a value a
\* transaction has written under its lock.
C1_StockNeverNegative ==
    /\ \A p \in Products : quantity[p] >= 0
    /\ \A t \in Reqs : \A p \in DOMAIN tx[t].qty : tx[t].qty[p] >= 0

\* Two requests competed for a product's last units: one committed and emptied
\* it, the other was turned away by the check under the lock.
C1_Witness ==
    \E t1, t2 \in Reqs : \E p \in Products :
        /\ pc[t1] = "committed" /\ pc[t2] = "rejected_stock"
        /\ QtyOf(req[t1].items, p) > 0 /\ QtyOf(req[t2].items, p) > 0
        /\ initial_quantity[p] > 0 /\ quantity[p] = 0

C3_FailedSaleLeavesNothing ==
    [][\A t \in Reqs :
        (pc[t] = "in_tx" /\ pc'[t] = "rejected_stock")
        => /\ quantity' = quantity
           /\ \A p \in DOMAIN tx[t].qty :
                quantity'[p] = tx[t].qty[p] + QtyOf(tx[t].items, p)
           /\ sales' = sales /\ saleItems' = saleItems /\ credits' = credits
           /\ t \notin DOMAIN sales' /\ t \notin DOMAIN saleItems'
           /\ t \notin DOMAIN credits'
           /\ tx'[t] = EmptyTx
           /\ \A p \in Products : rowLock'[p] # t]_vars

\* A credit sale of two line items was rejected on its second item, after the
\* first had been deducted inside the transaction.
C3_Witness ==
    \E t \in Reqs :
        /\ pc[t] = "rejected_stock" /\ idx[t] = 2 /\ Len(req[t].items) = 2
        /\ req[t].payment_method = "credit"

\* C4: a create_sale call that found the gate stopped is turned away with the
\* gate-closed error if its caller is not ADMIN or MANAGER, in a step that
\* takes no lock, starts no transaction and changes no quantity, Sale,
\* SaleItem or Credit, and it never does anything afterwards; a call by an
\* ADMIN or MANAGER that found the gate stopped is not turned away by the gate.
C4_GateEnforced ==
    /\ [](\A t \in Reqs :
            (pc[t] # "idle" /\ req[t].is_stopped) =>
                IF Privileged(req[t].role)
                THEN pc[t] # "gate_closed"
                ELSE /\ pc[t] = "gate_closed"
                     /\ tx[t] = EmptyTx
                     /\ t \notin DOMAIN sales
                     /\ \A p \in Products : rowLock[p] # t)
    /\ [][\A t \in Reqs :
            (pc[t] = "idle" /\ pc'[t] = "gate_closed")
            => UNCHANGED <<stockVars, rowVars, tx, idx>>]_vars

\* With the gate stopped, a cashier's call was turned away and a manager's call
\* made while it was stopped has committed its sale.
C4_Witness ==
    /\ is_sale_stopped
    /\ \E t1, t2 \in Reqs :
        /\ pc[t1] = "gate_closed" /\ req[t1].role = "CASHIER"
        /\ pc[t2] = "committed" /\ req[t2].role = "MANAGER" /\ req[t2].is_stopped
        /\ t2 \in DOMAIN sales

\* C5: the step in which an update_sale fails stock validation, in the
\* pre-check or under the lock after the old items' stock was restored, leaves
\* every committed quantity, Sale and SaleItem as before: the sale keeps its
\* original items and totals, the request holds no lock and no pending write;
\* and no step of an update before its commit changes a committed row.
C5_FailedUpdateRollsBack ==
    /\ [][\A u \in Updaters :
            (pc[u] \in {"idle", "in_tx"}
             /\ pc'[u] \in {"insufficient_stock", "rejected_stock"})
            => /\ quantity' = quantity
               /\ sales' = sales /\ saleItems' = saleItems /\ credits' = credits
               /\ tx'[u] = EmptyTx
               /\ \A p \in Products : rowLock'[p] # u]_vars
    /\ [][\A u \in Updaters :
            (<<pc[u], idx[u], upd[u]>> # <<pc'[u], idx'[u], upd'[u]>>
             /\ pc'[u] # "committed")
            => (quantity' = quantity /\ sales' = sales /\ saleItems' = saleItems)]_vars

\* An update restored the stock of its old item inside its transaction, then
\* failed under the lock; the sale still has the items it had.
C5_Witness ==
    \E u \in Updaters :
        /\ pc[u] = "rejected_stock"
        /\ upd[u].old_items # <<>>
        /\ saleItems[upd[u].sale_id] = upd[u].old_items
        /\ sales[upd[u].sale_id] = upd[u].instance

RECURSIVE PaidTo(_, _)
PaidTo(rows, s) ==
    IF rows = <<>> THEN 0
    ELSE (IF Head(rows).credit = s THEN Head(rows).amount ELSE 0) + PaidTo(Tail(rows), s)

ClearRejected == {"already_cleared", "invalid_amount", "exceeds_outstanding"}

\* C6: the step that commits a create_sale with payment_method = credit leaves
\* a Credit of that sale whose outstanding amount is total - amount_paid and
\* whose status is the status function of (amount_paid, outstanding): cleared,
\* partially_paid or pending.
C6_CreditCreatedWithComputedStatus ==
    [][\A t \in Reqs :
        (pc[t] = "in_tx" /\ pc'[t] = "committed" /\ req[t].payment_method = "credit")
        => /\ t \in DOMAIN credits'
           /\ credits'[t].outstanding_amount
                = sales'[t].total_amount - sales'[t].amount_paid
           /\ credits'[t].status
                = StatusOf(credits'[t].amount_paid, credits'[t].outstanding_amount)]_vars

\* C7: a clear call whose amount is <= 0, or greater than the outstanding amount
\* of the Credit at the moment the call loads it, is rejected in a step that
\* changes no Credit and no CreditPayment row, and a rejected call never writes.
C7_BadPaymentRejected ==
    /\ [][\A c \in Clearers :
            (cpc[c] = "idle" /\ cpc'[c] # "idle") =>
                LET s == creq'[c].credit_id
                    amount == creq'[c].amount
                IN  (amount <= 0 \/ amount > credits[s].outstanding_amount)
                    => /\ cpc'[c] \in ClearRejected
                       /\ credits' = credits
                       /\ payments' = payments]_vars
    /\ [][\A c \in Clearers :
            cpc[c] \in ClearRejected
            => (cpc'[c] = cpc[c] /\ creq'[c] = creq[c])]_vars

\* A payment of exactly the outstanding amount cleared the Credit, a payment of
\* one more than the outstanding amount was rejected, and so was one of 0.
C7_Witness ==
    \E c1, c2 \in Clearers : \E s \in DOMAIN credits :
        /\ cpc[c1] = "paid" /\ creq[c1].credit_id = s
        /\ creq[c1].amount = creq[c1].credit.outstanding_amount
        /\ credits[s].status = "cleared"
        /\ cpc[c2] \in {"exceeds_outstanding", "invalid_amount"}
        /\ creq[c2].credit_id = s
        /\ creq[c2].credit.status # "cleared"
        /\ \/ creq[c2].amount = creq[c2].credit.outstanding_amount + 1
           \/ creq[c2].amount <= 0

\* C8: in every committed state a Credit's amount_paid is its amount paid at
\* creation plus the sum of its CreditPayment rows, and the rows of a Credit
\* that has any do not sum to more than its outstanding amount at creation.
C8_PaymentsAppliedOnce ==
    \A s \in DOMAIN credits :
        /\ credits[s].amount_paid = sales[s].amount_paid + PaidTo(payments, s)
        /\ PaidTo(payments, s) > 0
             => PaidTo(payments, s) <= sales[s].total_amount - sales[s].amount_paid

\* C9: the status of every Credit is the status function of its amounts.
C9_StatusIsFunctionOfAmounts ==
    \A s \in DOMAIN credits :
        credits[s].status
            = StatusOf(credits[s].amount_paid, credits[s].outstanding_amount)

\* The Sale row of a request that has one, committed or still in its transaction.
SaleOf(t) == IF pc[t] = "committed" THEN sales[t] ELSE tx[t].sale[1]

RoundHalfUp(n, d) ==
    IF n >= 0 THEN (2 * n + d) \div (2 * d)
    ELSE 0 - ((2 * (0 - n) + d) \div (2 * d))

\* C11: on every sale create_sale has created, with base = subtotal - stored
\* discount, the stored VAT amount is base * vat_percent / 100 rounded to two
\* places half-up, and the stored total is base + VAT amount.
C11_VatRoundedHalfUp ==
    \A t \in Reqs :
        pc[t] \in {"in_tx", "committed"}
        => LET sale == SaleOf(t)
               base == sale.subtotal - sale.discount_amount
           IN  /\ sale.vat_amount = RoundHalfUp(base * req[t].vat_percent, 10000)
               /\ sale.total_amount = base + sale.vat_amount

Malformed(attrs) ==
    \/ attrs.items = <<>>
    \/ \E i \in DOMAIN attrs.items : attrs.items[i].quantity <= 0
    \/ \E i \in DOMAIN attrs.items : attrs.items[i].product \notin Products
    \/ attrs.vat_percent < 0

ValidationErrors ==
    {"no_items", "invalid_product", "invalid_quantity", "insufficient_stock",
     "discount_exceeds"}

\* C12: a create_sale whose cart is empty, has a line item of quantity <= 0 or
\* of a product that cannot be resolved, or whose vat_percent is negative, is
\* rejected with a validation error in a step that changes no quantity, Sale,
\* SaleItem or Credit, and it has no transaction, lock or row afterwards.
C12_MalformedRejected ==
    /\ [](\A t \in Reqs :
            (pc[t] # "idle" /\ Malformed(req[t]))
            => /\ pc[t] \in ValidationErrors
               /\ tx[t] = EmptyTx
               /\ t \notin DOMAIN sales
               /\ \A p \in Products : rowLock[p] # t)
    /\ [][\A t \in Reqs :
            (pc[t] = "idle" /\ pc'[t] # "idle" /\ Malformed(req'[t]))
            => UNCHANGED <<stockVars, rowVars>>]_vars

\* C13: under every interleaving of concurrent create_sale requests, no two
\* committed Sales have the same invoice identifier, also when two requests
\* generate the same one.
C13_InvoiceIdsDistinct ==
    \A s1, s2 \in DOMAIN sales :
        s1 # s2 => sales[s1].invoice_id # sales[s2].invoice_id

\* Two requests generated the same identifier: one committed its sale, the
\* other failed on the unique constraint and left nothing.
C13_Witness ==
    \E t1, t2 \in Reqs :
        /\ t1 # t2 /\ uuid4[t1] = uuid4[t2]
        /\ pc[t1] = "committed" /\ t1 \in DOMAIN sales
        /\ pc[t2] = "integrity_error" /\ t2 \notin DOMAIN sales

\* The transaction is at a line item whose product row another one has locked.
WaitsFor(t, p) ==
    /\ pc[t] = "in_tx"
    /\ idx[t] <= Len(req[t].items)
    /\ req[t].items[idx[t]].product = p
    /\ rowLock[p] \notin {NoReq, t}

\* Two transactions each hold the lock the other needs next (two sales with the
\* same two products in opposite cart orders).
CircularWait ==
    \E t1, t2 \in Txs : \E p1, p2 \in Products :
        /\ t1 # t2
        /\ rowLock[p1] = t1 /\ WaitsFor(t2, p1)
        /\ rowLock[p2] = t2 /\ WaitsFor(t1, p2)

\* C14: a transaction takes a product's row lock only when every lock it holds
\* is of a product with a smaller identifier, whatever the order of its cart,
\* and no two transactions each hold a lock the other is waiting for.
C14_LocksInAscendingOrder ==
    /\ [](~CircularWait)
    /\ [][\A t \in Txs : \A p \in Products :
            (rowLock[p] # t /\ rowLock'[p] = t)
            => \A p2 \in Products : rowLock[p2] = t => p2 < p]_vars

\* The product of the old line item an update is restoring.
RestoredProduct(u) == upd[u].old_items[idx[u]].product

\* The restore writes a quantity read before a committed change of the row.
StaleRestore ==
    \E u \in Updaters :
        /\ pc[u] = "restore_save"
        /\ upd[u].quantity # Visible(u, RestoredProduct(u))

\* C15: the restore of update_sale holds the product's row lock from the read
\* of the quantity it adds to, and the quantity it writes is the quantity of
\* the row at the time of the write plus the old item's, so that no committed
\* deduction of a concurrent create_sale is overwritten.
C15_RestoreReadsUnderLock ==
    /\ [](~StaleRestore)
    /\ [][\A u \in Updaters :
            (pc[u] = "restore" /\ pc'[u] = "restore_save")
            => rowLock'[RestoredProduct(u)] = u]_vars

\* A sale that was rolled back at the stock check under the lock on its second
\* line item had already sent its receipt and a low-stock alert.
EmittedThenRolledBack ==
    \E t \in Reqs :
        /\ pc[t] = "rejected_stock"
        /\ \E e \in emitted : e.by = t /\ e.kind = "receipt"
        /\ \E e \in emitted : e.by = t /\ e.kind = "low_stock"

\* C16: every receipt e-mail and low-stock alert sent so far was sent by a
\* request whose transaction has committed, and a request that was rejected or
\* rolled back has sent none.
C16_EmittedOnlyAfterCommit ==
    /\ \A e \in emitted : pc[e.by] = "committed"
    /\ ~EmittedThenRolledBack

\* C17: no step lowers the receipt_print_count of a committed Sale, under every
\* interleaving of increment_print_count and update_sale on it.
C17_PrintCountNeverDecreases ==
    [][\A s \in DOMAIN sales :
          sales'[s].receipt_print_count >= sales[s].receipt_print_count]_vars

\* C18: on every committed Sale, after any create_sale and update_sale,
\* total_amount = subtotal - discount_amount + vat_amount and
\* change_due = max(0, amount_paid - total_amount).
C18_TotalsConsistent ==
    \A s \in DOMAIN sales :
        /\ sales[s].total_amount
             = sales[s].subtotal - sales[s].discount_amount + sales[s].vat_amount
        /\ sales[s].change_due
             = (IF sales[s].amount_paid - sales[s].total_amount > 0
                THEN sales[s].amount_paid - sales[s].total_amount ELSE 0)

\* C19: the gate flag and the history log change only in a step of a toggle
\* call whose requester is ADMIN or MANAGER; a toggle call by any other role
\* is answered with the permission error in a step that leaves both unchanged,
\* and does nothing more.
C19_GateChangedOnlyByPrivileged ==
    /\ [][(is_sale_stopped' # is_sale_stopped \/ stopLog' # stopLog)
            => \E g \in Togglers :
                 /\ tpc[g] \in {"stopping", "resuming", "stop_logged", "resume_logged"}
                 /\ tpc'[g] # tpc[g]
                 /\ treq[g].role \in {"ADMIN", "MANAGER"}]_vars
    /\ [][\A g \in Togglers :
            (tpc[g] = "idle" /\ tpc'[g] # "idle"
             /\ treq'[g].role \notin {"ADMIN", "MANAGER"})
            => /\ tpc'[g] = "forbidden"
               /\ UNCHANGED <<is_sale_stopped, stopLog>>]_vars
    /\ [][\A g \in Togglers :
            tpc[g] = "forbidden" => tpc'[g] \in {"forbidden", "idle"}]_vars

\* With the gate stopped by an earlier toggle, a cashier's resume was refused
\* and the gate is still stopped, its log entry still open.
C19_Witness ==
    \E g \in Togglers :
        /\ tpc[g] = "forbidden"
        /\ treq[g].role = "CASHIER" /\ treq[g].action = "resume"
        /\ is_sale_stopped
        /\ Len(stopLog) = 1 /\ stopLog[1].is_stopped

\* C20: every successful toggle, stop or resume, adds one entry to the history
\* log, and no step changes or removes an entry that is already there.
C20_LogAppendOnly ==
    /\ [][/\ Len(stopLog') >= Len(stopLog)
          /\ \A i \in 1..Len(stopLog) : stopLog'[i] = stopLog[i]]_vars
    /\ [][\A g \in Togglers :
            (tpc[g] \in {"stopping", "resuming"} /\ tpc'[g] # tpc[g])
            => Len(stopLog') = Len(stopLog) + 1]_vars

\* C21: the step that admits or rejects an update_sale does not reject for
\* insufficient stock an update whose new quantities are covered by the
\* on-hand stock plus the stock restored from the sale's own old items (such as
\* the same items re-submitted when the product's stock is 0).
C21_RestoreBeforeValidate ==
    [][\A u \in Updaters :
          (pc[u] = "idle" /\ pc'[u] # "idle" /\ req'[u].items # <<>>)
          => LET s == upd'[u].sale_id
             IN  (\A p \in Products :
                     QtyOf(req'[u].items, p) <= quantity[p] + QtyOf(saleItems[s], p))
                 => pc'[u] # "insufficient_stock"]_vars

\* The stock an update has put back for product p inside its transaction.
Restored(t, p) == IF t \in Updaters THEN QtyOf(upd[t].old_items, p) ELSE 0

\* C22: in every step of the item loop, of a create_sale or an update_sale, the
\* quantity compared with the line's quantity is the row's committed quantity
\* as left by the previous lock holder, changed only by what the transaction
\* itself has restored and deducted under the lock; no other transaction has a
\* pending write of the row; and the line is refused exactly when that
\* quantity is smaller than the line's.
C22_ComparisonUsesLockedRead ==
    [][\A t \in Txs :
          (pc[t] = "in_tx" /\ (idx'[t] = idx[t] + 1 \/ pc'[t] = "rejected_stock"))
          => LET it == req[t].items[idx[t]]
                 p == it.product
             IN  /\ Visible(t, p) = quantity[p] + Restored(t, p) - QtyOf(tx[t].items, p)
                 /\ \A t2 \in Txs \ {t} : p \notin DOMAIN tx[t2].qty
                 /\ (pc'[t] = "rejected_stock") <=> (Visible(t, p) < it.quantity)]_vars

\* C23: under fair scheduling every create_sale that has started its
\* transaction eventually commits or is rejected and rolled back; none waits
\* for a product lock forever.
C23_EveryRequestTerminates ==
    \A t \in Reqs :
        (pc[t] = "in_tx") ~> (pc[t] \in {"committed", "rejected_stock"})

\* C24: every step that writes a product's quantity writes the quantity the
\* row has under the lock at that moment, changed by the amount of the write:
\* a deduction (with the lock held), the restore of an update_sale, and the
\* receipt of a purchase order.
C24_WritesFromLockedRead ==
    /\ [][\A t \in Txs :
            (pc[t] = "in_tx" /\ idx'[t] = idx[t] + 1)
            => LET it == req[t].items[idx[t]]
               IN  /\ rowLock'[it.product] = t
                   /\ tx'[t].qty[it.product] = Visible(t, it.product) - it.quantity]_vars
    /\ [][\A u \in Updaters :
            (pc[u] = "restore_save" /\ pc'[u] # "restore_save")
            => LET old == upd[u].old_items[idx[u]]
               IN  tx'[u].qty[old.product] = Visible(u, old.product) + old.quantity]_vars
    /\ [][\A r \in Receivers :
            (rpc[r] = "inventory_save" /\ rpc'[r] = "done")
            => quantity'[po_item.product]
                 = quantity[po_item.product] + po_item.quantity]_vars

\* The units of product p on the items of all committed sales.
RECURSIVE SoldOf(_, _)
SoldOf(S, p) ==
    IF S = {} THEN 0
    ELSE LET s == CHOOSE x \in S : TRUE
         IN  QtyOf(saleItems[s], p) + SoldOf(S \ {s}, p)

\* The units of product p added to the stock by purchase-order receipts.
ReceivedOf(p) == IF p = po_item.product THEN po_added * po_item.quantity ELSE 0

\* C25: in every committed state, for each product, the on-hand quantity plus
\* the quantities of all persisted SaleItems of it is its initial quantity
\* plus the quantity received from purchase orders.
C25_StockConserved ==
    \A p \in Products :
        quantity[p] + SoldOf(DOMAIN saleItems, p) = initial_quantity[p] + ReceivedOf(p)

\* C30: the items of the purchase order are added to the stock at most once,
\* under every interleaving of change_status calls, and no step changes its
\* status once it is received or cancelled.
C30_ReceivedOnce ==
    /\ [](po_added <= 1)
    /\ [][(po_status \in {"received", "cancelled"}) => (po_status' = po_status)]_vars

\* C26: a create_sale commits only if, for every product, the sum of the
\* quantities of its lines of that product is at most the product's quantity
\* under the lock, and the commit deducts exactly that sum; the step in which
\* a later line of the same product fails under the lock persists no sale, no
\* item and no deduction.
C26_DuplicateLinesSummed ==
    /\ [][\A t \in Reqs :
            (pc[t] = "in_tx" /\ pc'[t] = "committed")
            => \A p \in Products :
                 /\ QtyOf(req[t].items, p) <= quantity[p]
                 /\ quantity'[p] = quantity[p] - QtyOf(req[t].items, p)
                 /\ QtyOf(saleItems'[t], p) = QtyOf(req[t].items, p)]_vars
    /\ [][\A t \in Reqs :
            (pc[t] = "in_tx" /\ pc'[t] = "rejected_stock")
            => /\ quantity' = quantity
               /\ t \notin DOMAIN sales' /\ t \notin DOMAIN saleItems'
               /\ tx'[t].qty = <<>> /\ tx'[t].items = <<>>]_vars

\* Two carts that each list one product twice, one unit per line: the one on
\* the product with one unit on hand passed the pre-check line by line and was
\* rejected under the lock, leaving the unit; the one on the product with two
\* units committed and emptied it.
C26_Witness ==
    \E t1, t2 \in Reqs : \E p1, p2 \in Products :
        /\ p1 # p2
        /\ req[t1].items = <<Item(p1, 1), Item(p1, 1)>>
        /\ initial_quantity[p1] = 1 /\ pc[t1] = "rejected_stock" /\ quantity[p1] = 1
        /\ req[t2].items = <<Item(p2, 1), Item(p2, 1)>>
        /\ initial_quantity[p2] = 2 /\ pc[t2] = "committed" /\ quantity[p2] = 0

\* C27: no step changes a Credit whose committed status is cleared to another
\* status, to a lower amount_paid or to a positive outstanding amount, under
\* every interleaving of clear and mark_partial calls.
C27_ClearedIsAbsorbing ==
    [][\A s \in DOMAIN credits :
          credits[s].status = "cleared"
          => /\ credits'[s].status = "cleared"
             /\ credits'[s].amount_paid >= credits[s].amount_paid
             /\ credits'[s].outstanding_amount <= 0]_vars

\* No toggle call is between its read of the flag and its write of it.
TogglesQuiet ==
    \A g \in RaceTogglers :
        tpc[g] \notin {"stopping", "resuming", "stop_logged", "resume_logged"}

StoppedEntries == {i \in 1..Len(stopLog) : stopLog[i].is_stopped}

\* C28: whenever no toggle call is in progress, the cached flag is stopped
\* exactly if the history log has an entry with is_stopped = true, and there is
\* at most one such entry, under every interleaving of toggle calls; a stop
\* that found the gate stopped, or a resume that found it open, is rejected in
\* a step that changes neither flag nor log.
C28_FlagMatchesLog ==
    /\ [](TogglesQuiet
            => /\ is_sale_stopped <=> (StoppedEntries # {})
               /\ Cardinality(StoppedEntries) <= 1)
    /\ [][\A g \in RaceTogglers :
            (tpc[g] = "idle" /\ tpc'[g] = "already")
            => UNCHANGED <<is_sale_stopped, stopLog>>]_vars

\* C29: after any sequence of create_sale and update_sale operations, a Sale
\* has a Credit record exactly if its payment method is credit, and that
\* Credit's total_amount equals the Sale's current total_amount.
C29_CreditIffCreditSale ==
    \A s \in DOMAIN sales :
        /\ (s \in DOMAIN credits) <=> (sales[s].payment_method = "credit")
        /\ (s \in DOMAIN credits) => (credits[s].total_amount = sales[s].total_amount)

====
